---- MODULE Spec2Model ----
(***************************************************************************)
(* Model of lib/mailchimp-import.js: the tracking-key decoder, the report  *)
(* formatter and the two batched fetch operations of MailChimpImport       *)
(* (fetchCampaignData, fetchReportData) together with importData.          *)
(*                                                                         *)
(* Conventions.                                                            *)
(*  - A JavaScript string that the code parses (a GA key, a startTime) is  *)
(*    a tuple of one-character strings.                                    *)
(*  - An optional argument is a tuple of length at most one: << >> is      *)
(*    undefined, <<v>> is the value v.                                     *)
(*  - Campaign and report ids are non-empty strings in the program; they   *)
(*    are represented by positive integers.                                *)
(*  - An object whose fields may be absent is a function on its field      *)
(*    names.                                                               *)
(*  - One action is one synchronous run of the code between two awaits.    *)
(***************************************************************************)
EXTENDS Integers, Sequences, FiniteSets, TLC

(***************************************************************************)
(* Bounds of the model                                                     *)
(***************************************************************************)
MaxListing == 12

MaxCombos == 2

\* the ids 1..MaxImportId of the records importData is given on its own
MaxImportId == 2

\* the longest listing of the runs whose termination is checked
MaxLiveListing == 11

(***************************************************************************)
(* Program constants                                                       *)
(***************************************************************************)
MAX_CONCURRENT_CALLS == 10

(***************************************************************************)
(* Characters and numbers                                                  *)
(***************************************************************************)
Digits == <<"0", "1", "2", "3", "4", "5", "6", "7", "8", "9">>

Letters ==
  {"a", "b", "c", "d", "e", "f", "g", "h", "i", "j", "k", "l", "m",
   "n", "o", "p", "q", "r", "s", "t", "u", "v", "w", "x", "y", "z",
   "A", "B", "C", "D", "E", "F", "G", "H", "I", "J", "K", "L", "M",
   "N", "O", "P", "Q", "R", "S", "T", "U", "V", "W", "X", "Y", "Z"}

\* the regular expression class \d
IsDigit(c) == \E k \in 1..10 : Digits[k] = c

\* the regular expression class \w
IsWord(c) == IsDigit(c) \/ c \in Letters \/ c = "_"

DigitValue(c) == (CHOOSE k \in 1..10 : Digits[k] = c) - 1

\* Number(s) for a string of decimal digits
RECURSIVE NumberOf(_)
NumberOf(s) ==
  IF s = << >> THEN 0
  ELSE 10 * NumberOf(SubSeq(s, 1, Len(s) - 1)) + DigitValue(s[Len(s)])

\* String.prototype.substring(from, to) with 0-based from, exclusive to
Substring(s, from, to) ==
  SubSeq(s, (IF from < Len(s) THEN from ELSE Len(s)) + 1,
            IF to < Len(s) THEN to ELSE Len(s))

(***************************************************************************)
(* decodeGaKey                                                             *)
(***************************************************************************)
\* the line terminators of a regular expression: line feed, carriage
\* return, U+2028 and U+2029 (the last two are not in the model's alphabet)
LineTerminators == {"\n", "\r"}

\* the regular expression atom . (without the s flag)
IsDot(c) == c \notin LineTerminators

\* gaKey.match(/^([\d]{4})_([\w]{3})(\d)_(.*)$/) is not null; without the m
\* flag $ matches at the end of the string only
GaKeyMatches(gaKey) ==
  /\ Len(gaKey) >= 10
  /\ \A k \in 1..4 : IsDigit(gaKey[k])
  /\ gaKey[5] = "_"
  /\ \A k \in 6..8 : IsWord(gaKey[k])
  /\ IsDigit(gaKey[9])
  /\ gaKey[10] = "_"
  /\ \A k \in 11..Len(gaKey) : IsDot(gaKey[k])

MonthTokens ==
  << <<"j", "a", "n">>, <<"f", "e", "b">>, <<"m", "a", "r">>,
     <<"a", "p", "r">>, <<"m", "a", "y">>, <<"j", "u", "n">>,
     <<"j", "u", "l">>, <<"a", "u", "g">>, <<"s", "e", "p">>,
     <<"o", "c", "t">>, <<"n", "o", "v">>, <<"d", "e", "c">> >>

\* the quarter each case of the switch assigns
MonthQuarter == <<1, 1, 1, 2, 2, 2, 3, 3, 3, 4, 4, 4>>

\* the case of the switch the month token takes, 0 for the default case
MonthCase(token) ==
  IF \E m \in 1..12 : MonthTokens[m] = token
  THEN CHOOSE m \in 1..12 : MonthTokens[m] = token
  ELSE 0

\* result once the switch has set month and quarter
DecodedResult(gaKey, m) ==
  [year |-> NumberOf(SubSeq(gaKey, 1, 4)),
   month |-> m,
   quarter |-> MonthQuarter[m],
   promo_num |-> NumberOf(SubSeq(gaKey, 9, 9)),
   segment |-> SubSeq(gaKey, 11, Len(gaKey))]

\* a decoder that returns a defaulted result instead of throwing
decodeGaKeyDefaulting(gaKey) ==
  IF GaKeyMatches(gaKey) /\ MonthCase(SubSeq(gaKey, 6, 8)) # 0
  THEN [ok |-> TRUE, value |-> DecodedResult(gaKey, MonthCase(SubSeq(gaKey, 6, 8)))]
  ELSE [ok |-> TRUE,
        value |-> [year |-> 0, month |-> 0, quarter |-> 0, promo_num |-> 0,
                   segment |-> << >>]]

\* Result of decodeGaKey: [ok |-> TRUE, value |-> result] when it returns,
\* [ok |-> FALSE, error |-> e] when it throws: match is null when the key
\* does not match, so that match[1] throws a TypeError.
decodeGaKey(gaKey) ==
  IF ~GaKeyMatches(gaKey)
  THEN [ok |-> FALSE, error |-> <<"TypeError">>]
  ELSE LET token == SubSeq(gaKey, 6, 8)
       IN IF MonthCase(token) # 0
          THEN [ok |-> TRUE, value |-> DecodedResult(gaKey, MonthCase(token))]
          ELSE [ok |-> FALSE, error |-> <<"invalid-month-">> \o token]

(***************************************************************************)
(* formatCampaignReportData                                                *)
(***************************************************************************)
\* delete obj.field
Delete(obj, field) == [k \in DOMAIN obj \ {field} |-> obj[k]]

\* five delete statements: unique_clicks stays
StripReportButUniqueClicks(reportData) ==
  [reportData EXCEPT
     !.bounces = Delete(@, "syntax_errors"),
     !.opens = Delete(Delete(@, "opens_total"), "last_open"),
     !.clicks = Delete(Delete(@, "clicks_total"), "last_click")]

\* the raw report after the six delete statements
StripReport(reportData) ==
  [reportData EXCEPT
     !.bounces = Delete(@, "syntax_errors"),
     !.opens = Delete(Delete(@, "opens_total"), "last_open"),
     !.clicks = Delete(Delete(Delete(@, "clicks_total"), "unique_clicks"), "last_click")]

\* a formatter that never sees the parent_id of its variateParams
HasParamChildIdsOnly(variateParams, field) ==
  variateParams # << >> /\ field = "child_ids" /\ field \in DOMAIN variateParams[1]

\* variateParams && variateParams[field]; an array is always truthy and an
\* id is a non-empty string, so a field that is present is truthy
HasParam(variateParams, field) ==
  variateParams # << >> /\ field \in DOMAIN variateParams[1]

\* a formatter that always takes the type of the campaign
ReportTypeOwn(campaignData, variateParams) == campaignData.type

ReportType(campaignData, variateParams) ==
  IF variateParams # << >> THEN variateParams[1].type ELSE campaignData.type

formatCampaignReportData(site, campaignData, reportData, variateParams) ==
  LET stripped == StripReport(reportData)
      res == [_id |-> stripped.id,
              site |-> site,
              type |-> ReportType(campaignData, variateParams),
              year |-> campaignData.year,
              quarter |-> campaignData.quarter,
              month |-> campaignData.month,
              promo_num |-> campaignData.promo_num,
              segment |-> campaignData.segment,
              emails_sent |-> stripped.emails_sent,
              abuse_reports |-> stripped.abuse_reports,
              unsubscribed |-> stripped.unsubscribed,
              bounces |-> stripped.bounces,
              opens |-> stripped.opens,
              clicks |-> stripped.clicks]
  IN IF HasParam(variateParams, "child_ids")
     THEN res @@ [child_ids |-> variateParams[1].child_ids]
     ELSE IF HasParam(variateParams, "parent_id")
          THEN res @@ [parent_id |-> variateParams[1].parent_id]
          ELSE res

(***************************************************************************)
(* The environment: the account at the provider and the constructor's      *)
(* arguments                                                               *)
(***************************************************************************)
Undefined == "undefined"

Sites == {"site1", "site2"}

\* the constructor's mcAudienceId; a site that is no key gives undefined
audienceId(site) ==
  CASE site = "site1" -> "list1"
    [] site = "site2" -> "list2"
    [] OTHER -> Undefined

\* GA keys of the account's campaigns: 2021_apr1_a, 2021_mar2_b_c,
\* 2022_jan1_a and 2020_dec3_x
GaKeyPool ==
  << <<"2", "0", "2", "1", "_", "a", "p", "r", "1", "_", "a">>,
     <<"2", "0", "2", "1", "_", "m", "a", "r", "2", "_", "b", "_", "c">>,
     <<"2", "0", "2", "2", "_", "j", "a", "n", "1", "_", "a">>,
     <<"2", "0", "2", "0", "_", "d", "e", "c", "3", "_", "x">> >>

\* 21_apr1_a does not match the pattern, 2021_xyz1_a has no month
BadGaKeys ==
  << <<"2", "1", "_", "a", "p", "r", "1", "_", "a">>,
     <<"2", "0", "2", "1", "_", "x", "y", "z", "1", "_", "a">> >>

TypePatterns == {"regular", "variate", "mixed", "other"}

\* 0: every key is well formed; p: the campaign at listing position p
\* (1-based) carries a key that cannot be decoded
BadKeyPositions == {0, 3, 11}

AccountShapes == [types : TypePatterns, badAt : BadKeyPositions]

TypeAt(shape, p) ==
  CASE shape.types = "regular" -> "regular"
    [] shape.types = "variate" -> "variate"
    [] shape.types = "other" -> "rss"
    [] OTHER -> <<"rss", "regular", "variate">>[(p % 3) + 1]

KeyAt(shape, p) ==
  IF p = shape.badAt THEN BadGaKeys[(p % 2) + 1]
  ELSE GaKeyPool[(p % Len(GaKeyPool)) + 1]

CombosAt(p) == (p + (p \div 3)) % (MaxCombos + 1)

ChildId(p, k) == 100 * p + k

\* one entry of the listing GET campaigns returns
Campaign(shape, p) ==
  LET base == [id |-> p,
               type |-> TypeAt(shape, p),
               send_time |-> <<"sent", p>>,
               settings |-> [title |-> <<"title", p>>,
                             subject_line |-> <<"subject", p>>,
                             preview_text |-> <<"preview", p>>],
               tracking |-> [google_analytics |-> KeyAt(shape, p)]]
  IN IF TypeAt(shape, p) = "variate"
     THEN base @@ [variate_settings |->
                     [combinations |-> [k \in 1..CombosAt(p) |-> [id |-> ChildId(p, k)]]]]
     ELSE base

Listing(shape, len) == [p \in 1..len |-> Campaign(shape, p)]

\* the html body the provider holds for a campaign or a combination
Html(id) == "html-" \o ToString(id)

\* the body of GET campaigns/{id}/content
ApiContent(account, id) ==
  LET c == account[CHOOSE p \in 1..Len(account) : account[p].id = id]
  IN IF c.type = "variate"
     THEN [data |-> [variate_contents |->
                       [k \in 1..Len(c.variate_settings.combinations) |->
                          [html |-> Html(c.variate_settings.combinations[k].id)]]]]
     ELSE [data |-> [html |-> Html(id)]]

\* the body of GET reports/{id}; a report without opens or clicks has no
\* last_open and no last_click
ApiReport(id) ==
  [data |->
    [id |-> id,
     emails_sent |-> 10 * id,
     abuse_reports |-> id % 2,
     unsubscribed |-> id % 3,
     bounces |-> [hard_bounces |-> 1, soft_bounces |-> 2, syntax_errors |-> 3],
     opens |-> IF id % 2 = 0
               THEN [opens_total |-> 0, unique_opens |-> 0]
               ELSE [opens_total |-> id + 1, unique_opens |-> id, last_open |-> <<"opened", id>>],
     clicks |-> IF id % 2 = 0
                THEN [clicks_total |-> 0, unique_clicks |-> 0, unique_subscriber_clicks |-> 0]
                ELSE [clicks_total |-> id + 2, unique_clicks |-> id,
                      unique_subscriber_clicks |-> id, last_click |-> <<"clicked", id>>]]]

(***************************************************************************)
(* Helpers for JavaScript arrays and promises                              *)
(***************************************************************************)
\* arr[i] with the 0-based index of the source
At(arr, i) == arr[i + 1]

IsString(opt) == opt # << >>

\* an aggregation that pushes each value as it arrives
PromiseAllIndexArrival(slot, fulfilled) == fulfilled

\* Promise.all stores the value of the promise at position slot of its
\* argument at that position of its result, whatever the number of promises
\* already fulfilled
PromiseAllIndex(slot, fulfilled) == slot

\* an aggregate promise that stays pending
PromiseAllPending(promises, values) == FALSE

\* Promise.all is fulfilled when every promise of the array is
PromiseAllFulfilled(promises, values) == DOMAIN values = 1..Len(promises)

\* timer.timeout(ms): a timer of ms milliseconds, just started
Timeout(ms) == [ms |-> ms, elapsed |-> FALSE]

\* a continuation that does not wait for the timer
ForgetAwaitTimeout(timer) == timer

\* await timer.timeout(ms) continues when the timer has elapsed
AwaitTimeout(timer) == [timer EXCEPT !.elapsed = TRUE]

\* a client that resolves whatever the outcome of the request
AxiosRejectsNever(ok) == FALSE

\* the promise of axios.get rejects when the request fails
AxiosRejects(ok) == ~ok

(***************************************************************************)
(* State                                                                   *)
(***************************************************************************)
VARIABLES
  campaignDb,        \* the campaign data collection, in insertion order
  reportDb,          \* the report data collection, in insertion order
  account,           \* the campaigns of the account at the provider
  call,              \* the method being run and its arguments
  pc,                \* where the method is suspended
  campaigns,         \* fetchCampaignData: the listing
  docs,              \* fetchReportData: the selected stored campaigns
  i,                 \* the loop index of the source, 0-based
  j,                 \* fetchReportData: index of the child report awaited
  loopCount,
  loopCampaignData,
  content,           \* fetchCampaignData: the promises of the window
  loopData,          \* fetchReportData: the promises of the window
  settled,           \* the values Promise.all has collected so far
  campaignData,
  invalidCampaign,
  mcReportData,
  reportData,
  inflight,          \* API requests issued and not completed
  issued,            \* every API request of the call, in order of issue
  failed,            \* the numbers of the requests that failed
  decoded,           \* ids of the campaigns whose key decodeGaKey was given
  flushes,           \* the number of windows awaited so far
  result,            \* << >> or <<the value the call resolved with>>
  error,             \* << >> or the reason the call rejected with
  importResult,      \* the outcome of the last importData
  reordered,         \* a window whose values were used completed out of order
  timers             \* fetchReportData: the timers started, in order of start

vars ==
  <<campaignDb, reportDb, account, call, pc, campaigns, docs, i, j, loopCount,
    loopCampaignData, content, loopData, settled, campaignData, invalidCampaign,
    mcReportData, reportData, inflight, issued, failed, decoded, flushes,
    result, error, importResult, reordered, timers>>

dbVars == <<campaignDb, reportDb>>

NoCall == [fn |-> "none"]

EmptyMap == [k \in {} |-> k]

\* no call of importData yet
NoImport == [outcome |-> "none"]

Init ==
  /\ campaignDb = << >>
  /\ reportDb = << >>
  /\ account = << >>
  /\ call = NoCall
  /\ pc = "idle"
  /\ campaigns = << >>
  /\ docs = << >>
  /\ i = 0
  /\ j = 0
  /\ loopCount = 0
  /\ loopCampaignData = << >>
  /\ content = << >>
  /\ loopData = << >>
  /\ settled = EmptyMap
  /\ campaignData = << >>
  /\ invalidCampaign = << >>
  /\ mcReportData = << >>
  /\ reportData = << >>
  /\ inflight = {}
  /\ issued = << >>
  /\ failed = {}
  /\ decoded = {}
  /\ flushes = 0
  /\ result = << >>
  /\ error = << >>
  /\ importResult = NoImport
  /\ reordered = FALSE
  /\ timers = << >>

\* the request that axios.get issues next
NewRequest(kind, id, slot) ==
  [n |-> Len(issued) + 1, kind |-> kind, id |-> id, slot |-> slot, window |-> flushes + 1]

\* the state of the locals when a method is entered
EnterMethod ==
  /\ campaigns' = << >>
  /\ docs' = << >>
  /\ i' = 0
  /\ j' = 0
  /\ loopCount' = 0
  /\ loopCampaignData' = << >>
  /\ content' = << >>
  /\ loopData' = << >>
  /\ settled' = EmptyMap
  /\ campaignData' = << >>
  /\ invalidCampaign' = << >>
  /\ mcReportData' = << >>
  /\ reportData' = << >>
  /\ failed' = {}
  /\ decoded' = {}
  /\ flushes' = 0
  /\ importResult' = NoImport
  /\ reordered' = FALSE
  /\ timers' = << >>

\* an exception leaves the async method: its promise rejects
Reject(reason) ==
  /\ pc' = "rejected"
  /\ error' = reason
  /\ result' = << >>

(***************************************************************************)
(* fetchCampaignData                                                       *)
(***************************************************************************)
\* a type test that lets only regular campaigns through
IsValidTypeRegularOnly(type) == type = "regular"

IsValidType(type) == type = "regular" \/ type = "variate"

\* the string `${prefix}-${key}`, or the key alone when there is no prefix
GaField(prefix, key) == [prefix |-> prefix, key |-> key]

\* tempData of one loop iteration
TempData(site, c, decodedGaKey) ==
  LET base == [_id |-> c.id,
               list_id |-> audienceId(site),
               title |-> c.settings.title,
               type |-> c.type,
               year |-> decodedGaKey.year,
               quarter |-> decodedGaKey.quarter,
               month |-> decodedGaKey.month,
               promo_num |-> decodedGaKey.promo_num,
               segment |-> decodedGaKey.segment]
  IN IF c.type = "regular"
     THEN base @@ [subject_line |-> c.settings.subject_line,
                   preview_text |-> c.settings.preview_text,
                   send_time |-> c.send_time,
                   google_analytics |-> GaField(<<c.id>>, c.tracking.google_analytics)]
     ELSE base @@ [google_analytics |-> GaField(<< >>, c.tracking.google_analytics),
                   variate_settings |-> c.variate_settings]

\* a counter that counts the regular and variate campaigns only
CountAfterValidOnly(count, type) ==
  IF type = "regular" \/ type = "variate" THEN count + 1 ELSE count

\* else { ++loopCount; } at the end of the loop body, whatever the type of
\* the campaign
CountAfter(count, type) == count + 1

\* a window test that ends a window one request early
WindowEndsEarly(count, index, length) ==
  count >= MAX_CONCURRENT_CALLS - 2 \/ index >= length - 1

\* a window test that is off by one
WindowEndsLate(count, index, length) ==
  count >= MAX_CONCURRENT_CALLS \/ index >= length - 1

\* the test that ends a window: loopCount >= MAX_CONCURRENT_CALLS - 1 ||
\* index >= length - 1
WindowEnds(count, index, length) ==
  count >= MAX_CONCURRENT_CALLS - 1 \/ index >= length - 1

\* obj[field], undefined when the object has no such field
Field(obj, field) == IF field \in DOMAIN obj THEN obj[field] ELSE Undefined

\* loopCampaignData[k] with the content of the k-th promise attached
WithContent(tempData, response) ==
  IF tempData.type = "regular"
  THEN tempData @@ [content |-> Field(response.data, "html")]
  ELSE tempData @@ [variate_contents |->
                      [k \in 1..Len(response.data.variate_contents) |->
                         Field(response.data.variate_contents[k], "html")]]

\* undefined.forEach throws a TypeError
AttachThrows(window, values) ==
  \E k \in 1..Len(window) :
    window[k].type # "regular" /\ "variate_contents" \notin DOMAIN values[k].data

\* campaignData after the window's contents have arrived
FlushCampaigns(all, window, values) ==
  all \o [k \in 1..Len(window) |-> WithContent(window[k], values[k])]

\* the end of a loop iteration of fetchCampaignData: ++i, the loop test and
\* the return statement
NextCampaign(allCampaignData, allInvalidCampaign) ==
  /\ i' = i + 1
  /\ IF i + 1 < Len(campaigns)
     THEN /\ pc' = "loop"
          /\ UNCHANGED <<result, error>>
     ELSE /\ pc' = "resolved"
          /\ result' = <<[campaignData |-> allCampaignData,
                          invalidCampaign |-> allInvalidCampaign]>>
          /\ UNCHANGED error

\* The model follows one import run on empty collections: campaigns are
\* fetched and saved first, reports are fetched from the saved campaigns.
\* fetchCampaignData neither reads nor writes a collection.
StartFetchCampaignData(site, shape, len) ==
  /\ pc = "idle"
  /\ campaignDb = << >>
  /\ reportDb = << >>
  /\ EnterMethod
  /\ call' = [fn |-> "fetchCampaignData", site |-> site]
  /\ account' = Listing(shape, len)
  /\ LET req == [n |-> 1, kind |-> "listing", id |-> 0, slot |-> 0, window |-> 0]
     IN /\ inflight' = {req}
        /\ issued' = <<req>>
  /\ pc' = "awaitListing"
  /\ result' = << >>
  /\ error' = << >>
  /\ UNCHANGED dbVars

\* the promise of getCampaignData settles
ListingSettles(req, ok) ==
  /\ pc = "awaitListing"
  /\ UNCHANGED <<reordered, timers>>
  /\ req \in inflight
  /\ req.kind = "listing"
  /\ inflight' = inflight \ {req}
  /\ failed' = IF ok THEN failed ELSE failed \cup {req.n}
  /\ IF AxiosRejects(ok)
     THEN /\ Reject(<<"request-failed">>)
          /\ UNCHANGED campaigns
     ELSE /\ campaigns' = account
          /\ error' = error
          /\ IF Len(account) > 0
             THEN /\ pc' = "loop"
                  /\ UNCHANGED result
             ELSE /\ pc' = "resolved"
                  /\ result' = <<[campaignData |-> << >>, invalidCampaign |-> << >>]>>
  /\ UNCHANGED <<dbVars, account, call, docs, i, j, loopCount, loopCampaignData,
                 content, loopData, settled, campaignData, invalidCampaign,
                 mcReportData, reportData, issued, decoded, flushes, importResult>>

\* one iteration of the for loop, up to the await or to the next iteration
CampaignLoopStep ==
  /\ pc = "loop"
  /\ UNCHANGED <<reordered, timers>>
  /\ call.fn = "fetchCampaignData"
  /\ LET c == At(campaigns, i)
         key == c.tracking.google_analytics
         dec == decodeGaKey(key)
         req == NewRequest("content", c.id, Len(content) + 1)
     IN IF IsValidType(c.type) /\ ~dec.ok
        THEN \* decodeGaKey throws
             /\ decoded' = decoded \cup {c.id}
             /\ Reject(dec.error)
             /\ UNCHANGED <<i, loopCount, loopCampaignData, content, settled,
                            campaignData, invalidCampaign, inflight, issued, flushes>>
        ELSE /\ IF IsValidType(c.type)
                THEN /\ decoded' = decoded \cup {c.id}
                     /\ content' = Append(content, req.n)
                     /\ inflight' = inflight \cup {req}
                     /\ issued' = Append(issued, req)
                     /\ loopCampaignData' =
                          Append(loopCampaignData, TempData(call.site, c, dec.value))
                     /\ UNCHANGED invalidCampaign
                ELSE /\ invalidCampaign' =
                          Append(invalidCampaign, [id |-> c.id, type |-> c.type])
                     /\ UNCHANGED <<decoded, content, inflight, issued, loopCampaignData>>
             /\ IF WindowEnds(loopCount, i, Len(campaigns))
                THEN IF content' = << >>
                     THEN \* Promise.all([]) is fulfilled at once
                          /\ loopCount' = 0
                          /\ flushes' = flushes + 1
                          /\ UNCHANGED <<campaignData, settled>>
                          /\ NextCampaign(campaignData, invalidCampaign')
                     ELSE /\ pc' = "awaitContent"
                          /\ settled' = EmptyMap
                          /\ UNCHANGED <<i, loopCount, campaignData, flushes, result, error>>
                ELSE /\ loopCount' = CountAfter(loopCount, c.type)
                     /\ i' = i + 1
                     /\ pc' = "loop"
                     /\ UNCHANGED <<campaignData, settled, flushes, result, error>>
  /\ UNCHANGED <<dbVars, account, call, campaigns, docs, j, loopData,
                 mcReportData, reportData, failed, importResult>>

\* the promise of one getCampaignContentData of the awaited window settles;
\* the await continues when Promise.all is fulfilled and throws when it is
\* rejected
ContentSettles(req, ok) ==
  /\ pc = "awaitContent"
  /\ reordered' = IF ok
                  THEN reordered \/ \E other \in inflight :
                                      other.kind = req.kind /\ other.slot < req.slot
                  ELSE FALSE
  /\ UNCHANGED timers
  /\ req \in inflight
  /\ req.kind = "content"
  /\ inflight' = inflight \ {req}
  /\ failed' = IF ok THEN failed ELSE failed \cup {req.n}
  /\ IF AxiosRejects(ok)
     THEN \* Promise.all rejects and drops the values it had collected
          /\ Reject(<<"request-failed">>)
          /\ settled' = EmptyMap
          /\ UNCHANGED <<i, loopCount, loopCampaignData, content,
                         campaignData, flushes>>
     ELSE LET values ==
                (PromiseAllIndex(req.slot, Cardinality(DOMAIN settled) + 1)
                   :> ApiContent(account, req.id)) @@ settled
          IN IF PromiseAllFulfilled(content, values)
             THEN IF AttachThrows(loopCampaignData, values)
                  THEN /\ Reject(<<"TypeError">>)
                       /\ settled' = EmptyMap
                       /\ UNCHANGED <<i, loopCount, loopCampaignData, content,
                                      campaignData, flushes>>
                  ELSE /\ campaignData' =
                            FlushCampaigns(campaignData, loopCampaignData, values)
                       /\ NextCampaign(campaignData', invalidCampaign)
                       /\ loopCampaignData' = << >>
                       /\ loopCount' = 0
                       /\ content' = << >>
                       /\ settled' = EmptyMap
                       /\ flushes' = flushes + 1
             ELSE /\ settled' = values
                  /\ UNCHANGED <<pc, i, loopCount, loopCampaignData, content,
                                 campaignData, flushes, result, error>>
  /\ UNCHANGED <<dbVars, account, call, campaigns, docs, j, loopData,
                 invalidCampaign, mcReportData, reportData, issued, decoded,
                 importResult>>

\* a request of a call that has already rejected completes: nothing awaits it
LateSettles(req) ==
  /\ pc = "rejected"
  /\ UNCHANGED <<reordered, timers>>
  /\ req \in inflight
  /\ inflight' = inflight \ {req}
  /\ UNCHANGED <<dbVars, account, call, pc, campaigns, docs, i, j, loopCount,
                 loopCampaignData, content, loopData, settled, campaignData,
                 invalidCampaign, mcReportData, reportData, issued, failed,
                 decoded, flushes, result, error, importResult>>

(***************************************************************************)
(* The document store                                                      *)
(***************************************************************************)
\* the fields a projection keeps
Project(doc, projection) == [f \in DOMAIN doc \cap projection |-> doc[f]]

\* { _id: campaignId }
MatchesId(doc, campaignId) == doc._id = campaignId

\* { list_id: listId }
MatchesList(doc, listId) == doc.list_id = listId

\* a query without the $gt alternative
MatchesStartTimeNoGt(doc, listId, year, month) ==
  /\ doc.list_id = listId
  /\ doc.year >= year
  /\ doc.month >= month

\* { list_id: listId,
\*   $or: [{ year: { $gt: year }}, { year: { $gte: year }, month: { $gte: month }}] }
MatchesStartTime(doc, listId, year, month) ==
  /\ doc.list_id = listId
  /\ \/ doc.year > year
     \/ (doc.year >= year /\ doc.month >= month)

\* the three query filters of the code, as data
IdQuery(campaignId) == [filter |-> "_id", _id |-> campaignId]

ListQuery(listId) == [filter |-> "list_id", list_id |-> listId]

StartTimeQuery(listId, year, month) ==
  [filter |-> "list_id-$or", list_id |-> listId, year |-> year, month |-> month]

QueryMatches(doc, query) ==
  CASE query.filter = "_id" -> MatchesId(doc, query._id)
    [] query.filter = "list_id" -> MatchesList(doc, query.list_id)
    [] OTHER -> MatchesStartTime(doc, query.list_id, query.year, query.month)

\* MongoDBToolSet.getDataByFilter: the documents the filter matches, in the
\* order of the collection, each reduced to the projection
getDataByFilter(collection, query, projection) ==
  LET found == SelectSeq(collection, LAMBDA doc : QueryMatches(doc, query))
  IN [k \in 1..Len(found) |-> Project(found[k], projection)]

getCampaignDbData(collection, query, projection) ==
  getDataByFilter(collection, query, projection)

getAllCampaignDbDatabySite(collection, site, projection) ==
  getDataByFilter(collection, ListQuery(audienceId(site)), projection)

\* a write that inserts without looking for the _id
ReplaceOneInsertOnly(collection, element) == Append(collection, element)

\* replaceOne with upsert: the document with the element's _id is replaced
\* where it stands, a new _id is inserted
ReplaceOne(collection, element) ==
  IF \E k \in 1..Len(collection) : collection[k]._id = element._id
  THEN [k \in 1..Len(collection) |->
          IF collection[k]._id = element._id THEN element ELSE collection[k]]
  ELSE Append(collection, element)

RECURSIVE allBulkUnOrdered(_, _)
allBulkUnOrdered(collection, replaceOneArr) ==
  IF replaceOneArr = << >> THEN collection
  ELSE allBulkUnOrdered(ReplaceOne(collection, Head(replaceOneArr)), Tail(replaceOneArr))

(***************************************************************************)
(* fetchReportData                                                         *)
(***************************************************************************)
ReportProjection ==
  {"_id", "type", "variate_settings", "year", "quarter", "month", "promo_num", "segment"}

StartYear(startTime) == NumberOf(Substring(startTime, 0, 4))

StartMonth(startTime) == NumberOf(Substring(startTime, 5, 7))

\* the three-way choice of the query
SelectDocs(collection, site, startTime, campaignId) ==
  IF IsString(campaignId)
  THEN getCampaignDbData(collection, IdQuery(campaignId[1]), ReportProjection)
  ELSE IF IsString(startTime)
       THEN getCampaignDbData(collection,
                              StartTimeQuery(audienceId(site),
                                             StartYear(startTime[1]),
                                             StartMonth(startTime[1])),
                              ReportProjection)
       ELSE getAllCampaignDbDatabySite(collection, site, ReportProjection)

\* startTime.substring throws a TypeError when startTime is undefined
SubstringThrows(startTime) == ~IsString(startTime)

\* child ids pushed in front of the array instead of at its end
ChildIdsUnshifted(doc) ==
  [k \in 1..Len(doc.variate_settings.combinations) |->
     doc.variate_settings.combinations[
       Len(doc.variate_settings.combinations) + 1 - k].id]

\* childIds of a variate campaign
ChildIds(doc) ==
  [k \in 1..Len(doc.variate_settings.combinations) |->
     doc.variate_settings.combinations[k].id]

\* the end of an iteration of the second loop of fetchReportData: ++i, the
\* loop test and the return statement
NextDoc(allReportData) ==
  /\ i' = i + 1
  /\ IF i + 1 < Len(docs)
     THEN /\ pc' = "format"
          /\ UNCHANGED <<result, error>>
     ELSE /\ pc' = "resolved"
          /\ result' = <<allReportData>>
          /\ UNCHANGED error

StartFetchReportData(site, startTime, campaignId) ==
  /\ pc = "idle"
  /\ reportDb = << >>
  /\ EnterMethod
  /\ call' = [fn |-> "fetchReportData", site |-> site, startTime |-> startTime,
              campaignId |-> campaignId]
  /\ inflight' = {}
  /\ issued' = << >>
  /\ IF SubstringThrows(startTime)
     THEN Reject(<<"TypeError">>)
     ELSE /\ pc' = "awaitQuery"
          /\ result' = << >>
          /\ error' = << >>
  /\ UNCHANGED <<dbVars, account>>

\* the promise of the query settles
QuerySettles(ok) ==
  /\ pc = "awaitQuery"
  /\ UNCHANGED <<reordered, timers>>
  /\ IF ~ok
     THEN /\ Reject(<<"storage-failed">>)
          /\ UNCHANGED docs
     ELSE /\ docs' = SelectDocs(campaignDb, call.site, call.startTime, call.campaignId)
          /\ error' = error
          /\ IF Len(docs') > 0
             THEN /\ pc' = "loop"
                  /\ UNCHANGED result
             ELSE /\ pc' = "resolved"
                  /\ result' = << << >> >>
  /\ UNCHANGED <<dbVars, account, call, campaigns, i, j, loopCount, loopCampaignData,
                 content, loopData, settled, campaignData, invalidCampaign,
                 mcReportData, reportData, inflight, issued, failed, decoded,
                 flushes, importResult>>

\* a loop that hands the window to Promise.all and goes on without await
ForgetAwaitReports(promises) ==
  /\ loopData' = << >>
  /\ loopCount' = 0
  /\ flushes' = flushes + 1
  /\ settled' = EmptyMap
  /\ pc' = "cooldown"
  /\ UNCHANGED i

\* await Promise.all(loopData): the method is suspended until the promise
\* of the window's promises settles
AwaitReports(promises) ==
  /\ loopData' = promises
  /\ settled' = EmptyMap
  /\ pc' = "awaitReports"
  /\ UNCHANGED <<i, loopCount, flushes>>

\* one iteration of the first loop, up to the await or to the next iteration
ReportLoopStep ==
  /\ pc = "loop"
  /\ UNCHANGED <<reordered, timers>>
  /\ call.fn = "fetchReportData"
  /\ LET req == NewRequest("report", At(docs, i)._id, Len(loopData) + 1)
     IN /\ inflight' = inflight \cup {req}
        /\ issued' = Append(issued, req)
        /\ IF WindowEnds(loopCount, i, Len(docs))
           THEN AwaitReports(Append(loopData, req.n))
           ELSE /\ loopData' = Append(loopData, req.n)
                /\ loopCount' = loopCount + 1
                /\ i' = i + 1
                /\ UNCHANGED <<pc, settled, flushes>>
  /\ UNCHANGED <<dbVars, account, call, campaigns, docs, j, loopCampaignData,
                 content, campaignData, invalidCampaign, mcReportData, reportData,
                 failed, decoded, result, error, importResult>>

\* the promise of one getReportData of the awaited window settles
ReportSettles(req, ok) ==
  /\ pc = "awaitReports"
  /\ reordered' = IF ok
                  THEN reordered \/ \E other \in inflight :
                                      other.kind = req.kind /\ other.slot < req.slot
                  ELSE FALSE
  /\ req \in inflight
  /\ req.kind = "report"
  /\ inflight' = inflight \ {req}
  /\ failed' = IF ok THEN failed ELSE failed \cup {req.n}
  /\ IF AxiosRejects(ok)
     THEN \* Promise.all rejects and drops the values it had collected
          /\ Reject(<<"request-failed">>)
          /\ settled' = EmptyMap
          /\ UNCHANGED <<loopCount, loopData, mcReportData, flushes, timers>>
     ELSE LET values ==
                (PromiseAllIndex(req.slot, Cardinality(DOMAIN settled) + 1)
                   :> ApiReport(req.id)) @@ settled
          IN IF PromiseAllFulfilled(loopData, values)
             THEN /\ mcReportData' =
                       mcReportData \o [k \in 1..Len(loopData) |-> values[k].data]
                  /\ loopCount' = 0
                  /\ loopData' = << >>
                  /\ settled' = EmptyMap
                  /\ flushes' = flushes + 1
                  /\ timers' = Append(timers, Timeout(500))
                  /\ pc' = "cooldown"
                  /\ UNCHANGED <<result, error>>
             ELSE /\ settled' = values
                  /\ UNCHANGED <<pc, loopCount, loopData, mcReportData, flushes,
                                 result, error, timers>>
  /\ UNCHANGED <<dbVars, account, call, campaigns, docs, i, j, loopCampaignData,
                 content, campaignData, invalidCampaign, reportData, issued,
                 decoded, importResult>>

\* timer.timeout(500) elapses: ++i, the loop test, and the first statement
\* after the loop
CooldownElapses ==
  /\ pc = "cooldown"
  /\ UNCHANGED reordered
  /\ timers' = [timers EXCEPT ![Len(timers)] = AwaitTimeout(@)]
  /\ IF i + 1 < Len(docs)
     THEN /\ i' = i + 1
          /\ pc' = "loop"
     ELSE /\ i' = 0
          /\ pc' = "format"
  /\ UNCHANGED <<dbVars, account, call, campaigns, docs, j, loopCount,
                 loopCampaignData, content, loopData, settled, campaignData,
                 invalidCampaign, mcReportData, reportData, inflight, issued,
                 failed, decoded, flushes, result, error, importResult>>

\* one iteration of the second loop, up to the first await of a child report
\* or to the next iteration
FormatStep ==
  /\ pc = "format"
  /\ UNCHANGED <<reordered, timers>>
  /\ LET doc == At(docs, i)
     IN IF doc.type = "variate"
        THEN LET childIds == ChildIds(doc)
                 req == NewRequest("child", childIds[1], 0)
             IN /\ reportData' =
                     Append(reportData,
                            formatCampaignReportData(
                              call.site, doc, At(mcReportData, i),
                              <<[type |-> "variate-parent", child_ids |-> childIds]>>))
                /\ j' = 0
                /\ IF Len(childIds) > 0
                   THEN /\ inflight' = inflight \cup {req}
                        /\ issued' = Append(issued, req)
                        /\ pc' = "awaitChild"
                        /\ UNCHANGED <<i, result, error>>
                   ELSE /\ NextDoc(reportData')
                        /\ UNCHANGED <<inflight, issued>>
        ELSE /\ reportData' =
                  Append(reportData,
                         formatCampaignReportData(call.site, doc, At(mcReportData, i), << >>))
             /\ NextDoc(reportData')
             /\ UNCHANGED <<j, inflight, issued>>
  /\ mcReportData' = [mcReportData EXCEPT ![i + 1] = StripReport(@)]
  /\ UNCHANGED <<dbVars, account, call, campaigns, docs, loopCount, loopCampaignData,
                 content, loopData, settled, campaignData, invalidCampaign,
                 failed, decoded, flushes, importResult>>

\* the promise of the awaited child report settles
ChildSettles(req, ok) ==
  /\ pc = "awaitChild"
  /\ UNCHANGED <<reordered, timers>>
  /\ req \in inflight
  /\ req.kind = "child"
  /\ failed' = IF ok THEN failed ELSE failed \cup {req.n}
  /\ IF AxiosRejects(ok)
     THEN /\ Reject(<<"request-failed">>)
          /\ UNCHANGED <<i, j, reportData, issued>>
          /\ inflight' = inflight \ {req}
     ELSE LET doc == At(docs, i)
              childIds == ChildIds(doc)
              next == NewRequest("child", childIds[j + 2], 0)
          IN /\ reportData' =
                  Append(reportData,
                         formatCampaignReportData(
                           call.site, doc, ApiReport(req.id).data,
                           <<[type |-> "variate-child", parent_id |-> doc._id]>>))
             /\ j' = j + 1
             /\ IF j + 1 < Len(childIds)
                THEN /\ inflight' = (inflight \ {req}) \cup {next}
                     /\ issued' = Append(issued, next)
                     /\ UNCHANGED <<pc, i, result, error>>
                ELSE /\ inflight' = inflight \ {req}
                     /\ NextDoc(reportData')
                     /\ UNCHANGED issued
  /\ UNCHANGED <<dbVars, account, call, campaigns, docs, loopCount, loopCampaignData,
                 content, loopData, settled, campaignData, invalidCampaign,
                 mcReportData, decoded, flushes, importResult>>

(***************************************************************************)
(* importData                                                              *)
(***************************************************************************)
ImportKinds == {"campaignData", "campaignReport", "foo"}

\* a conditional expression that sends every other kind to the reports
ImportTargetReportsElse(type) ==
  IF type = "campaignData" THEN "campaignData" ELSE "campaignReport"

\* the collection the conditional expression of the return statement
\* writes, "none" when it takes the Promise.reject alternative
ImportTarget(type) ==
  CASE type = "campaignData" -> "campaignData"
    [] type = "campaignReport" -> "campaignReport"
    [] OTHER -> "none"

\* importData(type, importArr) over the two collections: the outcome of the
\* returned promise and the collections it leaves.  An element of
\* replaceOneArr is { replaceOne: { filter: { _id }, replacement, upsert } },
\* represented by its replacement.
importData(type, importArr, campaignColl, reportColl) ==
  LET replaceOneArr == [k \in 1..Len(importArr) |-> importArr[k]]
  IN CASE ImportTarget(type) = "campaignData" ->
            [ok |-> TRUE, error |-> << >>,
             campaignData |-> allBulkUnOrdered(campaignColl, replaceOneArr),
             campaignReport |-> reportColl]
       [] ImportTarget(type) = "campaignReport" ->
            [ok |-> TRUE, error |-> << >>,
             campaignData |-> campaignColl,
             campaignReport |-> allBulkUnOrdered(reportColl, replaceOneArr)]
       [] OTHER ->
            [ok |-> FALSE, error |-> <<"invalid-type-", type>>,
             campaignData |-> campaignColl,
             campaignReport |-> reportColl]

\* one call of importData: the collections after it, and the record of the
\* call: its arguments, the collections before it, and, when the call
\* repeats the one before it (again), the collections before that one
ImportStep(type, importArr, again) ==
  LET out == importData(type, importArr, campaignDb, reportDb)
  IN /\ campaignDb' = out.campaignData
     /\ reportDb' = out.campaignReport
     /\ importResult' =
          [outcome |-> IF out.ok THEN "resolved" ELSE "rejected",
           error |-> out.error,
           type |-> type,
           importArr |-> importArr,
           before |-> [campaignData |-> campaignDb, campaignReport |-> reportDb],
           origin |-> IF again THEN importResult.before
                      ELSE [campaignData |-> campaignDb, campaignReport |-> reportDb],
           repeated |-> again]

\* the caller saves what the last fetch resolved with, under the kind of
\* that fetch or under a kind importData does not know
ImportData(type) ==
  /\ pc = "resolved"
  /\ UNCHANGED <<reordered, timers>>
  /\ \/ type = "campaignData" /\ call.fn = "fetchCampaignData"
     \/ type = "campaignReport" /\ call.fn = "fetchReportData"
     \/ type \notin {"campaignData", "campaignReport"}
  /\ ImportStep(type,
                IF call.fn = "fetchCampaignData" THEN result[1].campaignData
                ELSE result[1],
                FALSE)
  /\ pc' = "idle"
  /\ call' = NoCall
  /\ UNCHANGED <<account, campaigns, docs, i, j, loopCount, loopCampaignData,
                 content, loopData, settled, campaignData, invalidCampaign,
                 mcReportData, reportData, inflight, issued, failed, decoded,
                 flushes, result, error>>

(***************************************************************************)
(* Inputs and specification                                                *)
(***************************************************************************)
\* the startTime arguments 2020-01-01, 2021-04-01 and 2022-01-15, each with
\* the year and the month it names
StartTimeTable ==
  { [text |-> <<"2", "0", "2", "0", "-", "0", "1", "-", "0", "1">>, year |-> 2020, month |-> 1],
    [text |-> <<"2", "0", "2", "1", "-", "0", "4", "-", "0", "1">>, year |-> 2021, month |-> 4],
    [text |-> <<"2", "0", "2", "2", "-", "0", "1", "-", "1", "5">>, year |-> 2022, month |-> 1] }

StartTimes == {e.text : e \in StartTimeTable}

OptionalStartTimes == {<< >>} \cup {<<t>> : t \in StartTimes}

\* a campaign id the store never holds stands for an unknown id
OptionalCampaignIds == {<< >>, <<2>>, <<MaxListing + 1>>}

OptionalSites == Sites \cup {Undefined}

ImportSites == {"site1"}

Next ==
  \/ \E site \in ImportSites, shape \in AccountShapes, len \in 0..MaxListing :
       StartFetchCampaignData(site, shape, len)
  \/ \E req \in inflight, ok \in BOOLEAN : ListingSettles(req, ok)
  \/ CampaignLoopStep
  \/ \E req \in inflight, ok \in BOOLEAN : ContentSettles(req, ok)
  \/ \E req \in inflight : LateSettles(req)
  \/ \E site \in OptionalSites, startTime \in OptionalStartTimes,
        campaignId \in OptionalCampaignIds :
       StartFetchReportData(site, startTime, campaignId)
  \/ \E ok \in BOOLEAN : QuerySettles(ok)
  \/ ReportLoopStep
  \/ \E req \in inflight, ok \in BOOLEAN : ReportSettles(req, ok)
  \/ CooldownElapses
  \/ FormatStep
  \/ \E req \in inflight, ok \in BOOLEAN : ChildSettles(req, ok)
  \/ \E type \in ImportKinds : ImportData(type)

Spec == Init /\ [][Next]_vars

(***************************************************************************)
(* importData on its own: one call with any kind and any array of records  *)
(* with distinct _id, on any two collections, followed by the same call    *)
(* again.  A collection holds at most one document per _id (the unique     *)
(* index of _id).                                                          *)
(***************************************************************************)
Payloads == {"a", "b"}

ImportRecords == [_id : 1..MaxImportId, payload : Payloads]

\* the arrays of records with distinct _id
RecordArrays ==
  UNION {{s \in [1..n -> ImportRecords] :
            \A a, b \in 1..n : a # b => s[a]._id # s[b]._id} : n \in 0..MaxImportId}

\* the collections a call may find: documents with distinct _id, taken in
\* the order of their _id
Stores ==
  {s \in RecordArrays : \A a, b \in 1..Len(s) : a < b => s[a]._id < s[b]._id}

fetchVars ==
  <<account, call, pc, campaigns, docs, i, j, loopCount, loopCampaignData,
    content, loopData, settled, campaignData, invalidCampaign, mcReportData,
    reportData, inflight, issued, failed, decoded, flushes, result, error,
    reordered, timers>>

ImportInit ==
  /\ campaignDb \in Stores
  /\ reportDb \in Stores
  /\ account = << >>
  /\ call = NoCall
  /\ pc = "idle"
  /\ campaigns = << >>
  /\ docs = << >>
  /\ i = 0
  /\ j = 0
  /\ loopCount = 0
  /\ loopCampaignData = << >>
  /\ content = << >>
  /\ loopData = << >>
  /\ settled = EmptyMap
  /\ campaignData = << >>
  /\ invalidCampaign = << >>
  /\ mcReportData = << >>
  /\ reportData = << >>
  /\ inflight = {}
  /\ issued = << >>
  /\ failed = {}
  /\ decoded = {}
  /\ flushes = 0
  /\ result = << >>
  /\ error = << >>
  /\ importResult = NoImport
  /\ reordered = FALSE
  /\ timers = << >>

ImportCall(type, importArr) ==
  /\ importResult = NoImport
  /\ ImportStep(type, importArr, FALSE)
  /\ UNCHANGED fetchVars

\* the caller passes the same kind and the same array a second time
ImportAgain ==
  /\ importResult # NoImport
  /\ ~importResult.repeated
  /\ ImportStep(importResult.type, importResult.importArr, TRUE)
  /\ UNCHANGED fetchVars

ImportNext ==
  \/ \E type \in ImportKinds, importArr \in RecordArrays : ImportCall(type, importArr)
  \/ ImportAgain

ImportSpec == ImportInit /\ [][ImportNext]_vars

(***************************************************************************)
(* decodeGaKey on its own: one call with any key of a set of well formed   *)
(* and malformed keys                                                      *)
(***************************************************************************)
\* 2020 and 1999, a year of three digits and a year with a letter
DecodeYears ==
  {<<"2", "0", "2", "0">>, <<"1", "9", "9", "9">>, <<"2", "0", "2">>,
   <<"2", "0", "x", "0">>}

\* the twelve month tokens, xyz, Jan, ja, a_1 and a-b
DecodeTokens ==
  {MonthTokens[m] : m \in 1..12}
    \cup {<<"x", "y", "z">>, <<"J", "a", "n">>, <<"j", "a">>, <<"a", "_", "1">>,
          <<"a", "-", "b">>}

DecodePromos == {<<"2">>, <<"0">>, <<"x">>, << >>}

\* the empty segment, a, sku_most, and a and b on two lines
DecodeSegments ==
  {<< >>, <<"a">>, <<"s", "k", "u", "_", "m", "o", "s", "t">>, <<"a", "\n", "b">>}

DecodePrefixes == {<< >>, <<"x">>}

DecodeSeparators == {<<"_">>, <<"-">>}

DecodeKeys ==
  {prefix \o year \o sep \o token \o promo \o <<"_">> \o segment :
     prefix \in DecodePrefixes, year \in DecodeYears, sep \in DecodeSeparators,
     token \in DecodeTokens, promo \in DecodePromos, segment \in DecodeSegments}

DecodeInit ==
  /\ campaignDb = << >>
  /\ reportDb = << >>
  /\ account = << >>
  /\ call \in {[fn |-> "decodeGaKey", gaKey |-> key] : key \in DecodeKeys}
  /\ pc = "idle"
  /\ campaigns = << >>
  /\ docs = << >>
  /\ i = 0
  /\ j = 0
  /\ loopCount = 0
  /\ loopCampaignData = << >>
  /\ content = << >>
  /\ loopData = << >>
  /\ settled = EmptyMap
  /\ campaignData = << >>
  /\ invalidCampaign = << >>
  /\ mcReportData = << >>
  /\ reportData = << >>
  /\ inflight = {}
  /\ issued = << >>
  /\ failed = {}
  /\ decoded = {}
  /\ flushes = 0
  /\ result = << >>
  /\ error = << >>
  /\ importResult = NoImport
  /\ reordered = FALSE
  /\ timers = << >>

\* the call returns or throws
Decode ==
  /\ pc = "idle"
  /\ call.fn = "decodeGaKey"
  /\ LET dec == decodeGaKey(call.gaKey)
     IN IF dec.ok
        THEN /\ pc' = "resolved"
             /\ result' = <<dec.value>>
             /\ UNCHANGED error
        ELSE /\ pc' = "rejected"
             /\ error' = dec.error
             /\ UNCHANGED result
  /\ UNCHANGED <<dbVars, account, call, campaigns, docs, i, j, loopCount,
                 loopCampaignData, content, loopData, settled, campaignData,
                 invalidCampaign, mcReportData, reportData, inflight, issued,
                 failed, decoded, flushes, importResult, reordered, timers>>

DecodeNext == Decode

DecodeSpec == DecodeInit /\ [][DecodeNext]_vars

(***************************************************************************)
(* formatCampaignReportData on its own: two calls in a row with the same   *)
(* raw report object, which the first call strips in place                 *)
(***************************************************************************)
\* the sub-fields the six delete statements name
DeletedBounces == {"syntax_errors"}

DeletedOpens == {"opens_total", "last_open"}

DeletedClicks == {"clicks_total", "unique_clicks", "last_click"}

\* sub-fields of a report no delete statement names
KeptBounces == {"hard_bounces", "soft_bounces"}

KeptOpens == {"unique_opens", "open_rate"}

KeptClicks == {"unique_subscriber_clicks", "click_rate"}

\* an object with the given fields
ObjectOf(fields) == [f \in fields |-> 7]

\* raw reports with every choice of the six sub-fields, present or absent
RawReports ==
  {[id |-> 1, emails_sent |-> 10, abuse_reports |-> 0, unsubscribed |-> 2,
    bounces |-> ObjectOf(KeptBounces \cup b),
    opens |-> ObjectOf(KeptOpens \cup o),
    clicks |-> ObjectOf(KeptClicks \cup c)] :
     b \in SUBSET DeletedBounces, o \in SUBSET DeletedOpens, c \in SUBSET DeletedClicks}

\* the campaign document the report is formatted for
FormatCampaign ==
  [_id |-> 1, type |-> "variate", year |-> 2021, quarter |-> 2, month |-> 4,
   promo_num |-> 1, segment |-> <<"a">>]

FormatParams ==
  {<< >>,
   <<[type |-> "variate-parent", child_ids |-> <<101, 102>>]>>,
   <<[type |-> "variate-child", parent_id |-> 1]>>}

FormatInit ==
  /\ campaignDb = << >>
  /\ reportDb = << >>
  /\ account = << >>
  /\ call \in {[fn |-> "formatCampaignReportData", site |-> site,
                 campaignData |-> FormatCampaign, reportData |-> raw,
                 variateParams |-> params] :
                  site \in Sites, raw \in RawReports, params \in FormatParams}
  /\ pc = "idle"
  /\ campaigns = << >>
  /\ docs = << >>
  /\ i = 0
  /\ j = 0
  /\ loopCount = 0
  /\ loopCampaignData = << >>
  /\ content = << >>
  /\ loopData = << >>
  /\ settled = EmptyMap
  /\ campaignData = << >>
  /\ invalidCampaign = << >>
  /\ mcReportData = <<call.reportData>>
  /\ reportData = << >>
  /\ inflight = {}
  /\ issued = << >>
  /\ failed = {}
  /\ decoded = {}
  /\ flushes = 0
  /\ result = << >>
  /\ error = << >>
  /\ importResult = NoImport
  /\ reordered = FALSE
  /\ timers = << >>

\* one call with the raw report object mcReportData[0]: the record it
\* returns is kept in reportData, the object is stripped in place
Format ==
  /\ call.fn = "formatCampaignReportData"
  /\ Len(reportData) < 2
  /\ reportData' =
       Append(reportData,
              formatCampaignReportData(call.site, call.campaignData,
                                       At(mcReportData, 0), call.variateParams))
  /\ mcReportData' = [mcReportData EXCEPT ![1] = StripReport(@)]
  /\ pc' = "resolved"
  /\ UNCHANGED <<dbVars, account, call, campaigns, docs, i, j, loopCount,
                 loopCampaignData, content, loopData, settled, campaignData,
                 invalidCampaign, inflight, issued, failed, decoded, flushes,
                 result, error, importResult, reordered, timers>>

FormatNext == Format

FormatSpec == FormatInit /\ [][FormatNext]_vars

(***************************************************************************)
(* The same program when every API request, every timer and every storage  *)
(* call eventually completes and the runtime runs every continuation that  *)
(* is ready                                                                *)
(***************************************************************************)
Completion ==
  /\ WF_vars(\E req \in inflight, ok \in BOOLEAN : ListingSettles(req, ok))
  /\ WF_vars(\E req \in inflight, ok \in BOOLEAN : ContentSettles(req, ok))
  /\ WF_vars(\E ok \in BOOLEAN : QuerySettles(ok))
  /\ WF_vars(\E req \in inflight, ok \in BOOLEAN : ReportSettles(req, ok))
  /\ WF_vars(\E req \in inflight, ok \in BOOLEAN : ChildSettles(req, ok))
  /\ WF_vars(CooldownElapses)

Continuation ==
  /\ WF_vars(CampaignLoopStep)
  /\ WF_vars(ReportLoopStep)
  /\ WF_vars(FormatStep)

LiveNext ==
  \/ \E site \in ImportSites, shape \in AccountShapes, len \in 0..MaxLiveListing :
       StartFetchCampaignData(site, shape, len)
  \/ \E req \in inflight, ok \in BOOLEAN : ListingSettles(req, ok)
  \/ CampaignLoopStep
  \/ \E req \in inflight, ok \in BOOLEAN : ContentSettles(req, ok)
  \/ \E req \in inflight : LateSettles(req)
  \/ \E site \in OptionalSites, startTime \in OptionalStartTimes,
        campaignId \in OptionalCampaignIds :
       StartFetchReportData(site, startTime, campaignId)
  \/ \E ok \in BOOLEAN : QuerySettles(ok)
  \/ ReportLoopStep
  \/ \E req \in inflight, ok \in BOOLEAN : ReportSettles(req, ok)
  \/ CooldownElapses
  \/ FormatStep
  \/ \E req \in inflight, ok \in BOOLEAN : ChildSettles(req, ok)
  \/ \E type \in ImportKinds : ImportData(type)

LiveSpec == Init /\ [][LiveNext]_vars /\ Completion /\ Continuation

(***************************************************************************)
(* Properties                                                              *)
(***************************************************************************)
IdsOf(records) == [k \in 1..Len(records) |-> records[k]._id]

IsPrefix(short, long) ==
  Len(short) <= Len(long) /\ short = SubSeq(long, 1, Len(short))

\* the listing entries of type regular or variate, in listing order
ValidEntries(listing) ==
  SelectSeq(listing, LAMBDA c : c.type \in {"regular", "variate"})

\* the listing entries of any other type, in listing order
InvalidEntries(listing) ==
  SelectSeq(listing, LAMBDA c : c.type \notin {"regular", "variate"})

\* the reports that stand for a selected campaign itself
MainReports(reports) == SelectSeq(reports, LAMBDA r : r.type # "variate-child")

\* the places where fetchReportData holds the documents the query returned
AfterQuery == {"loop", "awaitReports", "cooldown", "format", "awaitChild", "resolved"}

\* C1: at every moment of fetchCampaignData and fetchReportData, the number
\* of API requests issued and not yet completed is at most
\* MAX_CONCURRENT_CALLS.
C1_OutstandingWithinLimit == Cardinality(inflight) <= MAX_CONCURRENT_CALLS

\* a full window of report requests is outstanding
C1_Witness ==
  /\ pc = "awaitReports"
  /\ Cardinality(inflight) = MAX_CONCURRENT_CALLS

\* C2: whatever the completion order of a window, each campaign record
\* carries the content returned for its own id and campaignData keeps the
\* listing order of the valid campaigns; the raw report at position k is the
\* one fetched for docs[k]._id and the reports follow the order of docs.
C2_PositionalAssociation ==
  /\ call.fn = "fetchCampaignData" =>
       /\ IsPrefix(IdsOf(campaignData),
                   [k \in 1..Len(ValidEntries(account)) |-> ValidEntries(account)[k].id])
       /\ \A k \in 1..Len(campaignData) :
            LET rec == campaignData[k]
                own == ApiContent(account, rec._id).data
            IN IF rec.type = "regular"
               THEN rec.content = own.html
               ELSE rec.variate_contents =
                      [m \in 1..Len(own.variate_contents) |-> own.variate_contents[m].html]
       /\ pc = "resolved" =>
            /\ result[1].campaignData = campaignData
            /\ Len(campaignData) = Len(ValidEntries(account))
  /\ call.fn = "fetchReportData" =>
       /\ \A k \in 1..Len(mcReportData) : mcReportData[k].id = docs[k]._id
       /\ IsPrefix(IdsOf(MainReports(reportData)), IdsOf(docs))
       /\ pc = "resolved" =>
            /\ result[1] = reportData
            /\ Len(MainReports(reportData)) = Len(docs)

\* a call resolved with regular and variate campaigns after a window whose
\* requests completed out of the order of issue
C2_Witness ==
  /\ call.fn = "fetchCampaignData"
  /\ pc = "resolved"
  /\ reordered
  /\ \E k \in 1..Len(campaignData) : campaignData[k].type = "regular"
  /\ \E k \in 1..Len(campaignData) : campaignData[k].type = "variate"

\* what the claim expects of one report
ReportSignature(r) ==
  [_id |-> r._id,
   type |-> r.type,
   child_ids |-> IF "child_ids" \in DOMAIN r THEN <<r.child_ids>> ELSE << >>,
   parent_id |-> IF "parent_id" \in DOMAIN r THEN <<r.parent_id>> ELSE << >>,
   emails_sent |-> r.emails_sent]

CombinationIds(doc) ==
  [k \in 1..Len(doc.variate_settings.combinations) |->
     doc.variate_settings.combinations[k].id]

ExpectedReportsOf(doc) ==
  IF doc.type = "variate"
  THEN <<[_id |-> doc._id,
          type |-> "variate-parent",
          child_ids |-> <<CombinationIds(doc)>>,
          parent_id |-> << >>,
          emails_sent |-> ApiReport(doc._id).data.emails_sent]>>
       \o [k \in 1..Len(CombinationIds(doc)) |->
             [_id |-> CombinationIds(doc)[k],
              type |-> "variate-child",
              child_ids |-> << >>,
              parent_id |-> <<doc._id>>,
              emails_sent |-> ApiReport(CombinationIds(doc)[k]).data.emails_sent]]
  ELSE <<[_id |-> doc._id,
          type |-> doc.type,
          child_ids |-> << >>,
          parent_id |-> << >>,
          emails_sent |-> ApiReport(doc._id).data.emails_sent]>>

RECURSIVE ExpectedReports(_)
ExpectedReports(selected) ==
  IF selected = << >> THEN << >>
  ELSE ExpectedReportsOf(Head(selected)) \o ExpectedReports(Tail(selected))

\* C3: fetchReportData emits, for each selected variate campaign with N
\* combinations, one variate-parent report with child_ids in combination
\* order followed at once by N variate-child reports, the k-th fetched for the
\* k-th combination id and carrying parent_id; for every other selected
\* campaign it emits one report of the campaign's own type.
C3_VariateFanOut ==
  (call.fn = "fetchReportData" /\ pc = "resolved") =>
    [k \in 1..Len(result[1]) |-> ReportSignature(result[1][k])] = ExpectedReports(docs)

\* a call resolved over variate campaigns with no combination and with
\* MaxCombos combinations
C3_Witness ==
  /\ call.fn = "fetchReportData"
  /\ pc = "resolved"
  /\ \E k \in 1..Len(docs) :
       docs[k].type = "variate" /\ Len(docs[k].variate_settings.combinations) = 0
  /\ \E k \in 1..Len(docs) :
       docs[k].type = "variate" /\ Len(docs[k].variate_settings.combinations) = MaxCombos

ParentChildFieldsRight(r) ==
  CASE r.type = "variate-parent" -> "child_ids" \in DOMAIN r /\ "parent_id" \notin DOMAIN r
    [] r.type = "variate-child" -> "parent_id" \in DOMAIN r /\ "child_ids" \notin DOMAIN r
    [] OTHER -> "child_ids" \notin DOMAIN r /\ "parent_id" \notin DOMAIN r

\* C4: a variate-parent report has child_ids and no parent_id, a
\* variate-child report has parent_id and no child_ids, a report of any other
\* type has neither.
C4_ParentChildFields ==
  /\ \A k \in 1..Len(reportData) : ParentChildFieldsRight(reportData[k])
  /\ (call.fn = "fetchReportData" /\ pc = "resolved") =>
       \A k \in 1..Len(result[1]) : ParentChildFieldsRight(result[1][k])

\* a call resolved with a parent, a child and a regular report
C4_Witness ==
  /\ call.fn = "fetchReportData"
  /\ pc = "resolved"
  /\ \E k \in 1..Len(result[1]) : result[1][k].type = "variate-parent"
  /\ \E k \in 1..Len(result[1]) : result[1][k].type = "variate-child"
  /\ \E k \in 1..Len(result[1]) : result[1][k].type = "regular"

StartTimeEntry(text) == CHOOSE e \in StartTimeTable : e.text = text

\* the stored campaigns the claim selects for a start year and month
SelectedSince(collection, listId, startYear, startMonth) ==
  SelectSeq(collection,
            LAMBDA d : /\ d.list_id = listId
                       /\ \/ d.year > startYear
                          \/ (d.year = startYear /\ d.month >= startMonth))

\* C5: with a startTime and no campaignId, fetchReportData selects exactly
\* the stored campaigns of the site's audience list with year > startYear or
\* (year = startYear and month >= startMonth).
C5_StartTimeSelection ==
  (/\ call.fn = "fetchReportData"
   /\ pc \in AfterQuery
   /\ ~IsString(call.campaignId)
   /\ IsString(call.startTime)) =>
    IdsOf(docs) = IdsOf(SelectedSince(campaignDb, audienceId(call.site),
                                      StartTimeEntry(call.startTime[1]).year,
                                      StartTimeEntry(call.startTime[1]).month))

\* startTime 2021-04-01 over a store that holds campaigns of (2021, 3),
\* (2021, 4) and (2022, 1): the first is left out, the others are selected
C5_Witness ==
  /\ call.fn = "fetchReportData"
  /\ pc = "resolved"
  /\ ~IsString(call.campaignId)
  /\ IsString(call.startTime)
  /\ StartTimeEntry(call.startTime[1]).year = 2021
  /\ StartTimeEntry(call.startTime[1]).month = 4
  /\ \E k \in 1..Len(campaignDb) :
       /\ campaignDb[k].year = 2021 /\ campaignDb[k].month = 3
       /\ \A m \in 1..Len(docs) : docs[m]._id # campaignDb[k]._id
  /\ \E k \in 1..Len(campaignDb) :
       /\ campaignDb[k].year = 2021 /\ campaignDb[k].month = 4
       /\ \E m \in 1..Len(docs) : docs[m]._id = campaignDb[k]._id
  /\ \E k \in 1..Len(campaignDb) :
       /\ campaignDb[k].year = 2022 /\ campaignDb[k].month = 1
       /\ \E m \in 1..Len(docs) : docs[m]._id = campaignDb[k]._id

\* C6: with a campaignId, fetchReportData takes exactly the stored campaign
\* of that _id and does not fail on its arguments, whatever site and
\* startTime are, an omitted startTime included.
C6_CampaignIdPrecedence ==
  (call.fn = "fetchReportData" /\ IsString(call.campaignId)) =>
    /\ error # <<"TypeError">>
    /\ pc \in AfterQuery =>
         IdsOf(docs) = IdsOf(SelectSeq(campaignDb, LAMBDA d : d._id = call.campaignId[1]))

\* C7: with neither campaignId nor startTime, fetchReportData selects all
\* stored campaigns of the site's audience list and does not fail on its
\* arguments.
C7_AllCampaignsOfSite ==
  (call.fn = "fetchReportData" /\ ~IsString(call.campaignId) /\ ~IsString(call.startTime)) =>
    /\ error # <<"TypeError">>
    /\ pc \in AfterQuery =>
         IdsOf(docs) =
           IdsOf(SelectSeq(campaignDb, LAMBDA d : d.list_id = audienceId(call.site)))

ContentRequested(id) ==
  \E r \in 1..Len(issued) : issued[r].kind = "content" /\ issued[r].id = id

\* C8: a successful fetchCampaignData puts every listed campaign of type
\* regular or variate in campaignData and every other one, as {id, type}, in
\* invalidCampaign; the key of a campaign of another type is never decoded,
\* no content is requested for it, and no collection is written.
C8_ListingPartition ==
  call.fn = "fetchCampaignData" =>
    /\ \A k \in 1..Len(InvalidEntries(account)) :
         /\ InvalidEntries(account)[k].id \notin decoded
         /\ ~ContentRequested(InvalidEntries(account)[k].id)
    /\ campaignDb = << >>
    /\ reportDb = << >>
    /\ pc = "resolved" =>
         /\ IdsOf(result[1].campaignData) =
              [k \in 1..Len(ValidEntries(account)) |-> ValidEntries(account)[k].id]
         /\ result[1].invalidCampaign =
              [k \in 1..Len(InvalidEntries(account)) |->
                 [id |-> InvalidEntries(account)[k].id,
                  type |-> InvalidEntries(account)[k].type]]

\* the key is one of those no decoder accepts
IsBadKey(key) == \E b \in 1..Len(BadGaKeys) : BadGaKeys[b] = key

\* a call resolved with valid and invalid campaigns, one of the invalid ones
\* with a key that cannot be decoded
C8_Witness ==
  /\ call.fn = "fetchCampaignData"
  /\ pc = "resolved"
  /\ Len(result[1].campaignData) > 0
  /\ \E k \in 1..Len(InvalidEntries(account)) :
       IsBadKey(InvalidEntries(account)[k].tracking.google_analytics)

\* C9: when the key of a regular or variate campaign of the listing cannot
\* be decoded, fetchCampaignData never resolves and returns nothing, the
\* campaign is not put in invalidCampaign, no content is requested for it or
\* for any campaign after it, and the call rejects with the decoder's error
\* once the key has been given to the decoder.
C9_DecodeFailureAborts ==
  call.fn = "fetchCampaignData" =>
    \A p \in 1..Len(account) :
      (account[p].type \in {"regular", "variate"}
       /\ IsBadKey(account[p].tracking.google_analytics)) =>
        /\ pc # "resolved"
        /\ result = << >>
        /\ \A k \in 1..Len(invalidCampaign) : invalidCampaign[k].id # account[p].id
        /\ \A q \in p..Len(account) : ~ContentRequested(account[q].id)
        /\ account[p].id \in decoded =>
             /\ pc = "rejected"
             /\ error[1] \in {"TypeError", "invalid-month-"}

\* the key of the first campaign of the second window cannot be decoded: the
\* call has rejected although the first window had completed
C9_Witness ==
  /\ call.fn = "fetchCampaignData"
  /\ pc = "rejected"
  /\ error[1] = "invalid-month-"
  /\ flushes = 1
  /\ Len(campaignData) = MAX_CONCURRENT_CALLS
  /\ result = << >>

\* C10: once a request has failed, the call has rejected and returned
\* nothing, no request of a later window and no child report request has
\* been issued after it, and the failed request has been issued once.
C10_FailureRejects ==
  \A f \in failed :
    /\ pc = "rejected"
    /\ result = << >>
    /\ \A r \in 1..Len(issued) :
         /\ issued[r].window <= issued[f].window
         /\ issued[f].kind = "child" => r <= f
         /\ (r # f /\ issued[r].id = issued[f].id) =>
              (issued[r].kind = "content") # (issued[f].kind = "content")

\* a report request of the first of several windows has failed, with variate
\* campaigns among the selected ones
C10_Witness ==
  /\ call.fn = "fetchReportData"
  /\ pc = "rejected"
  /\ failed # {}
  /\ flushes = 0
  /\ Len(docs) > MAX_CONCURRENT_CALLS
  /\ Len(issued) = MAX_CONCURRENT_CALLS
  /\ \E k \in 1..Len(docs) :
       docs[k].type = "variate" /\ Len(docs[k].variate_settings.combinations) > 0

(***************************************************************************)
(* Properties of importData                                                *)
(***************************************************************************)
IdSet(records) == {records[k]._id : k \in 1..Len(records)}

UniqueIds(records) ==
  \A a, b \in 1..Len(records) : a # b => records[a]._id # records[b]._id

\* the record of the _id in a collection that holds one
Stored(collection, id) ==
  collection[CHOOSE k \in 1..Len(collection) : collection[k]._id = id]

\* C11: importData with a kind other than "campaignData" and
\* "campaignReport" rejects with the invalid-type error of that kind and
\* leaves both collections as they were before the call, whatever the array.
C11_InvalidKindRejects ==
  (importResult # NoImport
   /\ importResult.type \notin {"campaignData", "campaignReport"}) =>
    /\ importResult.outcome = "rejected"
    /\ importResult.error = <<"invalid-type-", importResult.type>>
    /\ campaignDb = importResult.before.campaignData
    /\ reportDb = importResult.before.campaignReport

\* importData of kind foo has been given an array with a record whose _id
\* is stored with another payload and a record whose _id is not stored
C11_Witness ==
  /\ importResult # NoImport
  /\ importResult.type = "foo"
  /\ importResult.outcome = "rejected"
  /\ reportDb # << >>
  /\ \E k \in 1..Len(importResult.importArr) :
       /\ importResult.importArr[k]._id \in IdSet(campaignDb)
       /\ Stored(campaignDb, importResult.importArr[k]._id) # importResult.importArr[k]
  /\ \E k \in 1..Len(importResult.importArr) :
       importResult.importArr[k]._id \notin IdSet(campaignDb) \cup IdSet(reportDb)

\* after is before with the records of importArr upserted by _id
UpsertedFrom(before, after, importArr) ==
  /\ IdSet(after) = IdSet(before) \cup IdSet(importArr)
  /\ \A k \in 1..Len(importArr) : Stored(after, importArr[k]._id) = importArr[k]
  /\ \A k \in 1..Len(before) :
       before[k]._id \notin IdSet(importArr) => Stored(after, before[k]._id) = before[k]

\* C12: each collection holds at most one record per _id; after a call of
\* a known kind the named collection is the one before the call with every
\* imported record stored under its _id (replaced or inserted) and every
\* other record unchanged, and the other collection is as before; after the
\* same call a second time both collections are as after the first.
C12_UpsertIdempotent ==
  /\ UniqueIds(campaignDb)
  /\ UniqueIds(reportDb)
  /\ (importResult # NoImport /\ importResult.type = "campaignData") =>
       /\ importResult.outcome = "resolved"
       /\ UpsertedFrom(importResult.before.campaignData, campaignDb,
                       importResult.importArr)
       /\ reportDb = importResult.before.campaignReport
  /\ (importResult # NoImport /\ importResult.type = "campaignReport") =>
       /\ importResult.outcome = "resolved"
       /\ UpsertedFrom(importResult.before.campaignReport, reportDb,
                       importResult.importArr)
       /\ campaignDb = importResult.before.campaignData
  /\ (importResult # NoImport /\ importResult.repeated) =>
       /\ campaignDb = importResult.before.campaignData
       /\ reportDb = importResult.before.campaignReport

\* the same array has been imported twice in the campaigns; the first call
\* replaced a stored record by one of another payload and left another
\* stored record alone, and the reports hold records
C12_Witness ==
  /\ importResult # NoImport
  /\ importResult.repeated
  /\ importResult.type = "campaignData"
  /\ reportDb # << >>
  /\ \E k \in 1..Len(importResult.importArr) :
       /\ importResult.importArr[k]._id \in IdSet(importResult.origin.campaignData)
       /\ Stored(importResult.origin.campaignData, importResult.importArr[k]._id)
            # importResult.importArr[k]
  /\ \E k \in 1..Len(campaignDb) : campaignDb[k]._id \notin IdSet(importResult.importArr)

(***************************************************************************)
(* Properties of the windows                                               *)
(***************************************************************************)
\* the requests a window holds: content requests and main report requests
IsWindowRequest(r) == r.kind \in {"content", "report"}

\* C13: every outstanding content or report request belongs to the window
\* that has not been awaited to its end yet (windows are numbered in the
\* order they are awaited), so that no window is left, and no request of the
\* next one issued, while a request of it is outstanding, and all outstanding
\* requests belong to one window.
C13_NoCrossWindowPipelining ==
  /\ \A r \in inflight : IsWindowRequest(r) => r.window = flushes + 1
  /\ \A a, b \in inflight :
       (IsWindowRequest(a) /\ IsWindowRequest(b)) => a.window = b.window
  /\ \A r \in 1..Len(issued) :
       IsWindowRequest(issued[r]) =>
         \A q \in 1..r : IsWindowRequest(issued[q]) => issued[q].window <= issued[r].window

\* the requests of a second window are outstanding, one of them completed
\* before an earlier one of that window
C13_Witness ==
  /\ call.fn = "fetchReportData"
  /\ pc = "awaitReports"
  /\ flushes = 1
  /\ \E a \in inflight : \E q \in 1..Len(issued) :
       /\ issued[q] \notin inflight
       /\ issued[q].window = 2
       /\ a.window = 2
       /\ a.n < issued[q].n

\* the main report requests, in order of issue
ReportRequests == SelectSeq(issued, LAMBDA r : r.kind = "report")

\* the number of main report requests of the w-th window
WindowSize(w) ==
  Cardinality({k \in 1..Len(ReportRequests) : ReportRequests[k].window = w})

CeilDiv(n, d) == (n + d - 1) \div d

\* the places of fetchReportData after its first loop
AfterMainBatch == {"format", "awaitChild", "resolved"}

\* C14: once fetchReportData has left its first loop over N selected
\* campaigns, it has issued N main report requests, one per campaign, in
\* ceil(N/10) windows, each of 10 requests but the last, which holds
\* N - 10*(ceil(N/10) - 1); with N = 0 there is no window and no request.
C14_ReportWindows ==
  (call.fn = "fetchReportData" /\ pc \in AfterMainBatch) =>
    LET N == Len(docs)
        W == CeilDiv(N, MAX_CONCURRENT_CALLS)
    IN /\ Len(ReportRequests) = N
       /\ \A k \in 1..N : ReportRequests[k].id = docs[k]._id
       /\ flushes = W
       /\ \A k \in 1..N : ReportRequests[k].window \in 1..W
       /\ \A w \in 1..(W - 1) : WindowSize(w) = MAX_CONCURRENT_CALLS
       /\ W > 0 => WindowSize(W) = N - MAX_CONCURRENT_CALLS * (W - 1)
       /\ N = 0 => issued = << >>

\* a call resolved over more campaigns than a window holds, the last window
\* a partial one
C14_Witness ==
  /\ call.fn = "fetchReportData"
  /\ pc = "resolved"
  /\ Len(docs) > MAX_CONCURRENT_CALLS
  /\ Len(docs) % MAX_CONCURRENT_CALLS # 0
  /\ WindowSize(1) = MAX_CONCURRENT_CALLS
  /\ WindowSize(2) = Len(docs) - MAX_CONCURRENT_CALLS

\* C15: in fetchReportData a timer of 500 ms is started when a window has
\* completed, and a request of window k+1 is issued only when the timer
\* started after window k has elapsed; no request is issued while a timer
\* is pending.
C15_CooldownBetweenWindows ==
  call.fn = "fetchReportData" =>
    /\ Len(timers) = flushes
    /\ \A t \in 1..Len(timers) : timers[t].ms = 500
    /\ \A k \in 1..Len(ReportRequests) :
         ReportRequests[k].window > 1 => timers[ReportRequests[k].window - 1].elapsed
    /\ \A t \in 1..Len(timers) :
         ~timers[t].elapsed =>
           /\ t = Len(timers)
           /\ pc = "cooldown"
           /\ inflight = {}
           /\ \A k \in 1..Len(ReportRequests) : ReportRequests[k].window <= t

\* the first request of the second window is outstanding: the first window
\* has completed and its timer has elapsed
C15_Witness ==
  /\ call.fn = "fetchReportData"
  /\ flushes = 1
  /\ Len(timers) = 1
  /\ timers[1].elapsed
  /\ \E r \in inflight : r.kind = "report" /\ r.window = 2
  /\ WindowSize(1) = MAX_CONCURRENT_CALLS

\* the child report requests, in order of issue
ChildRequests == SelectSeq(issued, LAMBDA r : r.kind = "child")

\* the combination ids of the variate campaigns among the selected ones, in
\* the order of the campaigns and, within one, of its combinations
RECURSIVE ExpectedChildIds(_)
ExpectedChildIds(selected) ==
  IF selected = << >> THEN << >>
  ELSE (IF Head(selected).type = "variate" THEN CombinationIds(Head(selected))
        ELSE << >>) \o ExpectedChildIds(Tail(selected))

\* C16: a child report request is issued only when every main report
\* request has been issued and has completed and every cooldown timer has
\* elapsed; an outstanding child report request is the only outstanding
\* request; the child report requests are issued in the order of their
\* parents and, within a parent, of its combinations, after every main
\* report request.
C16_ChildReportsSequential ==
  call.fn = "fetchReportData" =>
    /\ ChildRequests # << >> =>
         /\ pc \in {"format", "awaitChild", "resolved", "rejected"}
         /\ Len(ReportRequests) = Len(docs)
         /\ flushes = CeilDiv(Len(docs), MAX_CONCURRENT_CALLS)
         /\ \A r \in inflight : r.kind # "report"
         /\ \A t \in 1..Len(timers) : timers[t].elapsed
         /\ \A a, b \in 1..Len(issued) :
              (issued[a].kind = "report" /\ issued[b].kind = "child") => a < b
    /\ \A r \in inflight : r.kind = "child" => inflight = {r}
    /\ IsPrefix([k \in 1..Len(ChildRequests) |-> ChildRequests[k].id],
                ExpectedChildIds(docs))
    /\ pc = "resolved" =>
         [k \in 1..Len(ChildRequests) |-> ChildRequests[k].id] = ExpectedChildIds(docs)

\* the second child report of a parent that is not the first variate
\* campaign is outstanding, after a main batch of two windows
C16_Witness ==
  /\ call.fn = "fetchReportData"
  /\ pc = "awaitChild"
  /\ j = 1
  /\ flushes = 2
  /\ Len(ChildRequests) > 2
  /\ \E r \in inflight : r.kind = "child" /\ r.id = ChildRequests[Len(ChildRequests)].id

(***************************************************************************)
(* Properties of decodeGaKey                                               *)
(***************************************************************************)
LowerCaseLetters ==
  {"a", "b", "c", "d", "e", "f", "g", "h", "i", "j", "k", "l", "m",
   "n", "o", "p", "q", "r", "s", "t", "u", "v", "w", "x", "y", "z"}

\* <4-digit year>_<3 characters><1-digit promo>_<segment>, the segment
\* being the rest of the string, whatever it is
HasKeyShape(key) ==
  /\ Len(key) >= 10
  /\ \A k \in 1..4 : \E d \in 1..10 : Digits[d] = key[k]
  /\ key[5] = "_"
  /\ \E d \in 1..10 : Digits[d] = key[9]
  /\ key[10] = "_"

\* the month of a key of that shape is one of the twelve abbreviations
HasKnownMonth(key) == \E m \in 1..12 : MonthTokens[m] = SubSeq(key, 6, 8)

\* the month of a key of that shape is made of three letters
HasLetterMonth(key) == \A k \in 6..8 : key[k] \in Letters

\* what the claim has the decoder return for a key with a known month
ExpectedDecoded(key) ==
  LET m == CHOOSE n \in 1..12 : MonthTokens[n] = SubSeq(key, 6, 8)
  IN [year |-> 1000 * DigitValue(key[1]) + 100 * DigitValue(key[2])
                 + 10 * DigitValue(key[3]) + DigitValue(key[4]),
      month |-> m,
      quarter |-> CeilDiv(m, 3),
      promo_num |-> DigitValue(key[9]),
      segment |-> SubSeq(key, 11, Len(key))]

\* C17: for every key of the shape <4-digit year>_<month><1-digit promo>_
\* <segment> with one of the twelve month abbreviations the decoder returns
\* year, promo_num, the month, quarter = ceil(month/3) and the whole
\* remainder as segment; for a key of another shape it fails, and not with
\* the unknown-month error; for a key of that shape with another month of
\* three letters it fails with the unknown-month error.
C17_DecoderTotal ==
  (call.fn = "decodeGaKey" /\ pc # "idle") =>
    /\ (HasKeyShape(call.gaKey) /\ HasKnownMonth(call.gaKey)) =>
         /\ pc = "resolved"
         /\ result = <<ExpectedDecoded(call.gaKey)>>
    /\ (HasKeyShape(call.gaKey) /\ HasLetterMonth(call.gaKey)
        /\ ~HasKnownMonth(call.gaKey)) =>
         /\ pc = "rejected"
         /\ error[1] = "invalid-month-"
    /\ ~HasKeyShape(call.gaKey) =>
         /\ pc = "rejected"
         /\ error[1] # "invalid-month-"

(***************************************************************************)
(* Properties of formatCampaignReportData                                  *)
(***************************************************************************)
\* object is original without the fields gone and with nothing else changed
Without(original, gone, object) ==
  /\ DOMAIN object = DOMAIN original \ gone
  /\ \A f \in DOMAIN object : object[f] = original[f]

\* a record whose bounces, opens and clicks are those of the raw report
\* without the six sub-fields
NormalizedFrom(raw, record) ==
  /\ Without(raw.bounces, {"syntax_errors"}, record.bounces)
  /\ Without(raw.opens, {"opens_total", "last_open"}, record.opens)
  /\ Without(raw.clicks, {"clicks_total", "unique_clicks", "last_click"},
             record.clicks)

\* C18: the record formatCampaignReportData returns holds the bounces,
\* opens and clicks of the raw report without syntax_errors, opens_total,
\* last_open, clicks_total, unique_clicks and last_click, present or not,
\* and with every other sub-field; the raw report object is stripped in the
\* same way; a second call with the stripped object returns a record equal
\* to the first.
C18_NormalizeStripsSix ==
  call.fn = "formatCampaignReportData" =>
    /\ \A k \in 1..Len(reportData) : NormalizedFrom(call.reportData, reportData[k])
    /\ Len(reportData) > 0 => NormalizedFrom(call.reportData, mcReportData[1])
    /\ Len(reportData) = 2 => reportData[2] = reportData[1]

\* two calls have been made with a raw report that had clicks_total,
\* unique_clicks and syntax_errors and had no last_open
C18_Witness ==
  /\ call.fn = "formatCampaignReportData"
  /\ Len(reportData) = 2
  /\ {"clicks_total", "unique_clicks"} \subseteq DOMAIN call.reportData.clicks
  /\ "syntax_errors" \in DOMAIN call.reportData.bounces
  /\ "last_open" \notin DOMAIN call.reportData.opens
  /\ "unique_subscriber_clicks" \in DOMAIN reportData[2].clicks

(***************************************************************************)
(* Properties of the windows of fetchCampaignData                          *)
(***************************************************************************)
\* the content requests, in order of issue
ContentRequests == SelectSeq(issued, LAMBDA r : r.kind = "content")

\* the 1-based position of a campaign in the listing
PositionOf(id) == CHOOSE p \in 1..Len(account) : account[p].id = id

\* the number of content requests of the w-th window
ContentWindowSize(w) ==
  Cardinality({k \in 1..Len(ContentRequests) : ContentRequests[k].window = w})

HasContent(record) ==
  IF record.type = "regular" THEN "content" \in DOMAIN record
  ELSE "variate_contents" \in DOMAIN record

\* C19: the content request of the campaign at listing position p (from 0)
\* belongs to window p div 10 (from 0), whatever the types of the entries
\* before it, so a window holds at most 10 content requests; a call that
\* resolves over a listing of L entries has awaited ceil(L/10) windows, and
\* every regular or variate campaign of the listing is in campaignData with
\* its content, also when the last entry of the listing is of another type.
C19_WindowsOverListingEntries ==
  call.fn = "fetchCampaignData" =>
    /\ \A k \in 1..Len(ContentRequests) :
         ContentRequests[k].window =
           ((PositionOf(ContentRequests[k].id) - 1) \div MAX_CONCURRENT_CALLS) + 1
    /\ \A w \in 1..(flushes + 1) : ContentWindowSize(w) <= MAX_CONCURRENT_CALLS
    /\ pc = "resolved" =>
         /\ flushes = CeilDiv(Len(account), MAX_CONCURRENT_CALLS)
         /\ IdsOf(result[1].campaignData) =
              [k \in 1..Len(ValidEntries(account)) |-> ValidEntries(account)[k].id]
         /\ \A k \in 1..Len(result[1].campaignData) :
              HasContent(result[1].campaignData[k])
         /\ \A k \in 1..Len(ValidEntries(account)) :
              ContentRequested(ValidEntries(account)[k].id)

\* a call resolved over a listing of more than 10 entries with fewer than
\* 10 regular or variate campaigns, the last entry of another type: two
\* windows, and the campaign of the second window has its content
C19_Witness ==
  /\ call.fn = "fetchCampaignData"
  /\ pc = "resolved"
  /\ Len(account) > MAX_CONCURRENT_CALLS
  /\ Len(ValidEntries(account)) < MAX_CONCURRENT_CALLS
  /\ account[Len(account)].type \notin {"regular", "variate"}
  /\ flushes = 2
  /\ ContentWindowSize(2) > 0
  /\ HasContent(result[1].campaignData[Len(result[1].campaignData)])

(***************************************************************************)
(* Termination                                                             *)
(***************************************************************************)
\* a call of fetchCampaignData or fetchReportData has been made and its
\* promise is pending
Pending ==
  pc \in {"awaitListing", "awaitContent", "awaitQuery", "awaitReports",
          "cooldown", "format", "awaitChild", "loop"}

Settled == pc \in {"resolved", "rejected"}

\* C20 as stated: every call eventually settles when everything it awaits
\* completes, and a call never settles when a request it issued never
\* completes (the request stays outstanding for ever).
C20_SettlesIffAllComplete ==
  /\ Pending ~> Settled
  /\ (<>[](inflight # {})) => [](~Settled)

\* the call was rejected by the decoder
DecodeRejected ==
  /\ call.fn = "fetchCampaignData"
  /\ pc = "rejected"
  /\ error[1] \in {"TypeError", "invalid-month-"}
  /\ failed = {}

\* C20 as amended: every call eventually settles; a call has not resolved
\* as long as a request it issued is outstanding; a call that has rejected
\* with requests outstanding was rejected by the failure of a request of
\* their window or by the decoder.
C20_SettlesAndResolvesWhenAllComplete ==
  /\ Pending ~> Settled
  /\ [](pc = "resolved" => inflight = {})
  /\ []((pc = "rejected" /\ inflight # {}) =>
          \/ DecodeRejected
          \/ \E f \in failed : \A r \in inflight : r.window = issued[f].window)

\* a call has rejected on the failure of a request while another request of
\* the window is outstanding
C20_Witness ==
  /\ pc = "rejected"
  /\ failed # {}
  /\ inflight # {}
  /\ \E f \in failed : \A r \in inflight : r.window = issued[f].window

====
